---- MODULE Spec2Model ----
(***************************************************************************)
(* Model of generate_reference_embeddings.py: main() and                   *)
(* generate_embedding().  The tokenizer and the embedding model are        *)
(* external ONNX sessions; each invocation either raises or returns one of *)
(* a bounded set of outputs.  Python indices are 0-based, TLA+ sequences   *)
(* are 1-based: outputs[1] of the code is outputs[2] here.                 *)
(***************************************************************************)
EXTENDS Integers, Sequences, FiniteSets

VARIABLES
    tokenizer_exists,   \* os.path.exists(tokenizer_path)
    model_exists,       \* os.path.exists(model_path)
    pc,                 \* position of the single control flow
    printed,            \* console lines, in order
    tokenizer_session,  \* 0 until created, then the id of the session object
    model_session,      \* 0 until created, then the id of the session object
    test_texts,         \* the list main iterates over
    pos,                \* how many list elements the for loop has taken
    embeddings,         \* the dict of main, as <<key, value>> in insertion order
    output_file,        \* what this run did to reference_embeddings.json
    failure,            \* which call raised, "none" while nothing has
    log,                \* the calls made on the inference engine, in order
    text,               \* generate_embedding: parameter
    tokens,             \* generate_embedding: local
    token_indices,      \* generate_embedding: local
    token_pairs,        \* generate_embedding: local
    ordered_tokens,     \* generate_embedding: local
    input_ids,          \* generate_embedding: local
    attention_mask,     \* generate_embedding: local
    model_feed,         \* the feed dict of the last model_session.run call
    embedding           \* main: value returned by generate_embedding

vars == <<tokenizer_exists, model_exists, pc, printed, tokenizer_session,
          model_session, test_texts, pos, embeddings, output_file, failure,
          log, text, tokens, token_indices, token_pairs, ordered_tokens,
          input_ids, attention_mask, model_feed, embedding>>

frame == <<text, tokens, token_indices, token_pairs, ordered_tokens,
           input_ids, attention_mask>>

env == <<tokenizer_exists, model_exists, test_texts>>

-----------------------------------------------------------------------------
(* Bounds *)

\* longest sample list main is run on
MaxTexts == 2
\* longest tokenizer output inside a run of main
MaxTokens == 1
\* longest tokenizer output when generate_embedding is checked on its own
MaxPairs == 3

\* sample texts (all shorter than 50 characters, so text[:50] = text)
Texts == {"", "Hello world!"}
\* token ids the tokenizer may emit
TokenIds == {5, 42, 101}
\* position indices the tokenizer may emit
IndexValues == {0, 1, 2}
\* embedding vectors the model may return
Vectors == {<<1, 2>>, <<3, 4>>}

BoundedSeq(S, n) == UNION {[1..k -> S] : k \in 0..n}

-----------------------------------------------------------------------------
(* Values *)

tokenizer_path == "onnx/tokenizer.onnx"
model_path == "onnx/model.onnx"
output_path == "onnx/reference_embeddings.json"

Untouched == [state |-> "untouched"]
NoFeed == [called |-> FALSE]
NoEmbedding == <<>>

\* the three lines printed before the existence checks
Banner ==
    << <<"Using tokenizer:", tokenizer_path>>,
       <<"Using model:", model_path>>,
       <<"Output will be saved to:", output_path>> >>

TokenizerMissing == <<"ERROR: Tokenizer file not found at", tokenizer_path>>
ModelMissing == <<"ERROR: Model file not found at", model_path>>
Generating(t) == <<"Generating embedding for:", t>>
Saved(n) == <<"Saved reference embeddings:", n, output_path>>

\* a model_session.run call in the log, with the embedding generate_embedding
\* returned from it (NoEmbedding when the call raised)
ModelRun(s, k, e) == [op |-> "model_run", session |-> s, sample |-> k, returned |-> e]

\* what the model session returns: two outputs, the second a (1, dim) array
ModelOutputs == { << <<<<0>>>>, <<v>> >> : v \in Vectors }

-----------------------------------------------------------------------------
(* Pure parts of generate_embedding *)

Min(a, b) == IF a < b THEN a ELSE b

\* FormPairs as it would be if a missing index were padded with 0 instead of
\* the pair being skipped
FormPairsPadded(toks, idxs) ==
    [i \in 1..Len(toks) |-> <<IF i <= Len(idxs) THEN idxs[i] ELSE 0, toks[i]>>]

\* for i in range(len(tokens)): if i < len(token_indices): append((index, token))
FormPairs(toks, idxs) ==
    [i \in 1..Min(Len(toks), Len(idxs)) |-> <<idxs[i], toks[i]>>]

\* Python's order on 2-tuples of integers: lexicographic
TupleLess(p, q) == p[1] < q[1] \/ (p[1] = q[1] /\ p[2] < q[2])

RECURSIVE InsertSorted(_, _)
\* p goes after every element that is not greater than it (a stable insertion)
InsertSorted(p, s) ==
    IF s = <<>> THEN <<p>>
    ELSE IF TupleLess(p, Head(s)) THEN <<p>> \o s
    ELSE <<Head(s)>> \o InsertSorted(p, Tail(s))

RECURSIVE SortFrom(_, _)
SortFrom(done, rest) ==
    IF rest = <<>> THEN done
    ELSE SortFrom(InsertSorted(Head(rest), done), Tail(rest))

RECURSIVE InsertDescending(_, _)
InsertDescending(p, s) ==
    IF s = <<>> THEN <<p>>
    ELSE IF TupleLess(Head(s), p) THEN <<p>> \o s
    ELSE <<Head(s)>> \o InsertDescending(p, Tail(s))

RECURSIVE SortDescendingFrom(_, _)
SortDescendingFrom(done, rest) ==
    IF rest = <<>> THEN done
    ELSE SortDescendingFrom(InsertDescending(Head(rest), done), Tail(rest))

\* SortPairs as it would be with sort(reverse=True)
SortPairsDescending(s) == SortDescendingFrom(<<>>, s)

RECURSIVE InsertByIndex(_, _)
InsertByIndex(p, s) ==
    IF s = <<>> THEN <<p>>
    ELSE IF p[1] < Head(s)[1] THEN <<p>> \o s
    ELSE <<Head(s)>> \o InsertByIndex(p, Tail(s))

RECURSIVE SortByIndexFrom(_, _)
SortByIndexFrom(done, rest) ==
    IF rest = <<>> THEN done
    ELSE SortByIndexFrom(InsertByIndex(Head(rest), done), Tail(rest))

\* SortPairs as it would be with sort(key=lambda pair: pair[0]): stable, so
\* pairs of equal index keep their input order
SortPairsByIndexOnly(s) == SortByIndexFrom(<<>>, s)

\* SortPairs as it would be if the sort were left out
SortPairsOmitted(s) == s

\* list.sort() on a list of tuples
SortPairs(s) == SortFrom(<<>>, s)

\* [pair[1] for pair in token_pairs]
ExtractTokens(s) == [i \in DOMAIN s |-> s[i][2]]

\* np.array([ordered_tokens]): a batch of one row
Batch(row) == <<row>>

\* OnesLike as it would be with np.zeros_like
ZerosLike(m) == [r \in DOMAIN m |-> [c \in DOMAIN m[r] |-> 0]]

\* np.ones_like(input_ids)
OnesLike(m) == [r \in DOMAIN m |-> [c \in DOMAIN m[r] |-> 1]]

RECURSIVE Flatten(_)
\* ndarray.flatten().tolist() of a 2-D array
Flatten(m) == IF m = <<>> THEN <<>> ELSE Head(m) \o Flatten(Tail(m))

-----------------------------------------------------------------------------
(* The dict of main *)

DictHas(d, k) == \E j \in DOMAIN d : d[j][1] = k
DictGet(d, k) == d[CHOOSE j \in DOMAIN d : d[j][1] = k][2]
DictKeys(d) == {d[j][1] : j \in DOMAIN d}

\* d[k] = v: an existing key keeps its place and takes the new value
DictSet(d, k, v) ==
    IF DictHas(d, k)
    THEN [j \in DOMAIN d |-> IF d[j][1] = k THEN <<k, v>> ELSE d[j]]
    ELSE Append(d, <<k, v>>)

-----------------------------------------------------------------------------
(* Initial states *)

NoFrame ==
    /\ text = ""
    /\ tokens = <<>>
    /\ token_indices = <<>>
    /\ token_pairs = <<>>
    /\ ordered_tokens = <<>>
    /\ input_ids = <<>>
    /\ attention_mask = <<>>

DropFrame ==
    /\ text' = ""
    /\ tokens' = <<>>
    /\ token_indices' = <<>>
    /\ token_pairs' = <<>>
    /\ ordered_tokens' = <<>>
    /\ input_ids' = <<>>
    /\ attention_mask' = <<>>

Init ==
    /\ tokenizer_exists \in BOOLEAN
    /\ model_exists \in BOOLEAN
    /\ test_texts \in BoundedSeq(Texts, MaxTexts)
    /\ pc = "start"
    /\ printed = <<>>
    /\ tokenizer_session = 0
    /\ model_session = 0
    /\ pos = 0
    /\ embeddings = <<>>
    /\ output_file = Untouched
    /\ failure = "none"
    /\ log = <<>>
    /\ NoFrame
    /\ model_feed = NoFeed
    /\ embedding = NoEmbedding

-----------------------------------------------------------------------------
(* main *)

\* an uncaught exception: the frames unwind and the process ends
Raise(what) ==
    /\ pc' = "raised"
    /\ failure' = what
    /\ DropFrame

\* Start as it would be if the missing tokenizer were reported without return
StartNoReturn ==
    /\ pc = "start"
    /\ IF tokenizer_exists
       THEN printed' = printed \o Banner
       ELSE printed' = (printed \o Banner) \o <<TokenizerMissing>>
    /\ pc' = "check_model"
    /\ UNCHANGED <<env, tokenizer_session, model_session, pos, embeddings,
                   output_file, failure, log, frame, model_feed, embedding>>

\* lines 30-45
Start ==
    /\ pc = "start"
    /\ IF tokenizer_exists
       THEN /\ printed' = printed \o Banner
            /\ pc' = "check_model"
       ELSE /\ printed' = (printed \o Banner) \o <<TokenizerMissing>>
            /\ pc' = "returned"
    /\ UNCHANGED <<env, tokenizer_session, model_session, pos, embeddings,
                   output_file, failure, log, frame, model_feed, embedding>>

\* CheckModel as it would be if the missing model were reported without return
CheckModelNoReturn ==
    /\ pc = "check_model"
    /\ IF model_exists
       THEN printed' = printed
       ELSE printed' = printed \o <<ModelMissing>>
    /\ pc' = "create_tokenizer"
    /\ UNCHANGED <<env, tokenizer_session, model_session, pos, embeddings,
                   output_file, failure, log, frame, model_feed, embedding>>

\* lines 47-49
CheckModel ==
    /\ pc = "check_model"
    /\ IF model_exists
       THEN /\ printed' = printed
            /\ pc' = "create_tokenizer"
       ELSE /\ printed' = printed \o <<ModelMissing>>
            /\ pc' = "returned"
    /\ UNCHANGED <<env, tokenizer_session, model_session, pos, embeddings,
                   output_file, failure, log, frame, model_feed, embedding>>

\* lines 51-57
CreateTokenizerSession ==
    /\ pc = "create_tokenizer"
    /\ \/ /\ tokenizer_session' = 1
          /\ log' = Append(log, [op |-> "create_tokenizer", session |-> 1])
          /\ pc' = "create_model"
          /\ UNCHANGED <<failure, frame>>
       \/ /\ Raise("tokenizer_session")
          /\ UNCHANGED <<tokenizer_session, log>>
    /\ UNCHANGED <<env, printed, model_session, pos, embeddings, output_file,
                   model_feed, embedding>>

\* lines 59-72
CreateModelSession ==
    /\ pc = "create_model"
    /\ \/ /\ model_session' = 2
          /\ log' = Append(log, [op |-> "create_model", session |-> 2])
          /\ embeddings' = <<>>
          /\ pc' = "loop"
          /\ UNCHANGED <<failure, frame>>
       \/ /\ Raise("model_session")
          /\ UNCHANGED <<model_session, log, embeddings>>
    /\ UNCHANGED <<env, printed, tokenizer_session, pos, output_file,
                   model_feed, embedding>>

\* LoopNext as it would be if the tokenizer session were created inside the loop
LoopNextNewSession ==
    /\ pc = "loop"
    /\ IF pos < Len(test_texts)
       THEN /\ pos' = pos + 1
            /\ printed' = Append(printed, Generating(test_texts[pos + 1]))
            /\ text' = test_texts[pos + 1]
            /\ tokenizer_session' = tokenizer_session + 2
            /\ log' = Append(log, [op |-> "create_tokenizer",
                                   session |-> tokenizer_session + 2])
            /\ pc' = "ge_tokenize"
       ELSE /\ pc' = "write"
            /\ UNCHANGED <<pos, printed, text, tokenizer_session, log>>
    /\ UNCHANGED <<env, model_session, embeddings, output_file, failure,
                   tokens, token_indices, token_pairs, ordered_tokens,
                   input_ids, attention_mask, model_feed, embedding>>

\* lines 73-75: the for statement takes the next text and calls generate_embedding
LoopNext ==
    /\ pc = "loop"
    /\ IF pos < Len(test_texts)
       THEN /\ pos' = pos + 1
            /\ printed' = Append(printed, Generating(test_texts[pos + 1]))
            /\ text' = test_texts[pos + 1]
            /\ pc' = "ge_tokenize"
       ELSE /\ pc' = "write"
            /\ UNCHANGED <<pos, printed, text>>
    /\ UNCHANGED <<env, tokenizer_session, model_session, embeddings,
                   output_file, failure, log, tokens, token_indices,
                   token_pairs, ordered_tokens, input_ids, attention_mask,
                   model_feed, embedding>>

\* lines 8-9: tokenizer_session.run and the unpacking of its three outputs
TokenizerRun(n) ==
    /\ pc = "ge_tokenize"
    /\ log' = Append(log, [op |-> "tokenizer_run", session |-> tokenizer_session,
                           sample |-> pos, text |-> text])
    /\ \/ /\ tokens' \in BoundedSeq(TokenIds, n)
          /\ token_indices' \in BoundedSeq(IndexValues, n)
          /\ pc' = "ge_pair"
          /\ UNCHANGED <<failure, text, token_pairs, ordered_tokens, input_ids,
                         attention_mask>>
       \/ Raise("tokenizer_run")
    /\ UNCHANGED <<env, printed, tokenizer_session, model_session, pos,
                   embeddings, output_file, model_feed, embedding>>

GE_Tokenize == TokenizerRun(MaxTokens)

\* lines 11-14
GE_Pair ==
    /\ pc = "ge_pair"
    /\ token_pairs' = FormPairs(tokens, token_indices)
    /\ pc' = "ge_sort"
    /\ UNCHANGED <<env, printed, tokenizer_session, model_session, pos,
                   embeddings, output_file, failure, log, text, tokens,
                   token_indices, ordered_tokens, input_ids, attention_mask,
                   model_feed, embedding>>

\* lines 16-20
GE_Sort ==
    /\ pc = "ge_sort"
    /\ token_pairs' = SortPairs(token_pairs)
    /\ ordered_tokens' = ExtractTokens(token_pairs')
    /\ input_ids' = Batch(ordered_tokens')
    /\ attention_mask' = OnesLike(input_ids')
    /\ pc' = "ge_model"
    /\ UNCHANGED <<env, printed, tokenizer_session, model_session, pos,
                   embeddings, output_file, failure, log, text, tokens,
                   token_indices, model_feed, embedding>>

\* lines 22-27 and the return to line 75
GE_Model ==
    /\ pc = "ge_model"
    /\ model_feed' = [called |-> TRUE, input_ids |-> input_ids,
                      attention_mask |-> attention_mask]
    /\ \/ /\ \E outputs \in ModelOutputs : embedding' = Flatten(outputs[2])
          /\ log' = Append(log, ModelRun(model_session, pos, embedding'))
          /\ pc' = "store"
          /\ UNCHANGED <<failure, frame>>
       \/ /\ Raise("model_run")
          /\ log' = Append(log, ModelRun(model_session, pos, NoEmbedding))
          /\ UNCHANGED embedding
    /\ UNCHANGED <<env, printed, tokenizer_session, model_session, pos,
                   embeddings, output_file>>

\* Store as it would be with embeddings.setdefault(text, embedding)
StoreFirstWins ==
    /\ pc = "store"
    /\ embeddings' = IF DictHas(embeddings, text) THEN embeddings
                     ELSE Append(embeddings, <<text, embedding>>)
    /\ pc' = "loop"
    /\ DropFrame
    /\ model_feed' = NoFeed
    /\ embedding' = NoEmbedding
    /\ UNCHANGED <<env, printed, tokenizer_session, model_session, pos,
                   output_file, failure, log>>

\* Store as it would be if the file were rewritten after every sample
StoreAndWrite ==
    /\ pc = "store"
    /\ embeddings' = DictSet(embeddings, text, embedding)
    /\ output_file' = [state |-> "written", content |-> embeddings']
    /\ pc' = "loop"
    /\ DropFrame
    /\ model_feed' = NoFeed
    /\ embedding' = NoEmbedding
    /\ UNCHANGED <<env, printed, tokenizer_session, model_session, pos,
                   failure, log>>

\* line 76
Store ==
    /\ pc = "store"
    /\ embeddings' = DictSet(embeddings, text, embedding)
    /\ pc' = "loop"
    /\ DropFrame
    /\ model_feed' = NoFeed
    /\ embedding' = NoEmbedding
    /\ UNCHANGED <<env, printed, tokenizer_session, model_session, pos,
                   output_file, failure, log>>

\* lines 78-81: open may raise, json.dump may raise after the file was created
WriteOutput ==
    /\ pc = "write"
    /\ \/ /\ output_file' = [state |-> "written", content |-> embeddings]
          /\ printed' = Append(printed, Saved(Len(embeddings)))
          /\ pc' = "done"
          /\ UNCHANGED <<failure, frame>>
       \/ /\ Raise("open")
          /\ UNCHANGED <<output_file, printed>>
       \/ /\ output_file' = [state |-> "partial"]
          /\ Raise("json_dump")
          /\ UNCHANGED printed
    /\ UNCHANGED <<env, tokenizer_session, model_session, pos, embeddings,
                   log, model_feed, embedding>>

Next ==
    \/ Start
    \/ CheckModel
    \/ CreateTokenizerSession
    \/ CreateModelSession
    \/ LoopNext
    \/ GE_Tokenize
    \/ GE_Pair
    \/ GE_Sort
    \/ GE_Model
    \/ Store
    \/ WriteOutput

Spec == Init /\ [][Next]_vars

-----------------------------------------------------------------------------
(* generate_embedding on its own: the state of a run of main on one sample  *)
(* when the tokenizer has just returned (line 9), for every tokenizer       *)
(* output up to MaxPairs long.                                              *)

EmbedInit ==
    /\ tokenizer_exists = TRUE
    /\ model_exists = TRUE
    /\ test_texts \in {<<t>> : t \in Texts}
    /\ pc = "ge_pair"
    /\ printed = Append(Banner, Generating(test_texts[1]))
    /\ tokenizer_session = 1
    /\ model_session = 2
    /\ pos = 1
    /\ embeddings = <<>>
    /\ output_file = Untouched
    /\ failure = "none"
    /\ log = << [op |-> "create_tokenizer", session |-> 1],
                [op |-> "create_model", session |-> 2],
                [op |-> "tokenizer_run", session |-> 1, sample |-> 1,
                 text |-> test_texts[1]] >>
    /\ text = test_texts[1]
    /\ tokens \in BoundedSeq(TokenIds, MaxPairs)
    /\ token_indices \in BoundedSeq(IndexValues, MaxPairs)
    /\ token_pairs = <<>>
    /\ ordered_tokens = <<>>
    /\ input_ids = <<>>
    /\ attention_mask = <<>>
    /\ model_feed = NoFeed
    /\ embedding = NoEmbedding

EmbedNext ==
    \/ GE_Pair
    \/ GE_Sort
    \/ GE_Model

EmbedSpec == EmbedInit /\ [][EmbedNext]_vars

-----------------------------------------------------------------------------
(* Properties of generate_embedding, checked under EmbedSpec *)

Perms(n) == {f \in [1..n -> 1..n] : \A a, b \in 1..n : a # b => f[a] # f[b]}

Count(s, v) == Cardinality({i \in DOMAIN s : s[i] = v})

\* the step of lines 16-17: the pair list goes in, the token sequence comes out
ReorderStep == pc = "ge_sort" /\ pc' = "ge_model"

\* out holds the token of every pair of pairs, the pair at place k at place
\* f[k], and pairs of smaller index come first
PlacedByIndex(pairs, out) ==
    /\ Len(out) = Len(pairs)
    /\ \E f \in Perms(Len(pairs)) :
          /\ \A k \in DOMAIN pairs : out[f[k]] = pairs[k][2]
          /\ \A j, k \in DOMAIN pairs : pairs[j][1] < pairs[k][1] => f[j] < f[k]

\* C1: the ordered token sequence is as long as the pair list handed to the
\* reordering step, and the token of a pair of smaller index comes before the
\* token of a pair of larger index.
C1_ReorderByIndex == [][ReorderStep => PlacedByIndex(token_pairs, ordered_tokens')]_vars

\* C1: the scenario [(2,101),(0,5),(1,42)] -> [5,42,101] has happened.
C1_Witness ==
    /\ pc = "ge_model"
    /\ tokens = <<101, 5, 42>>
    /\ token_indices = <<2, 0, 1>>
    /\ ordered_tokens = <<5, 42, 101>>

\* C5: when the token sequence and the index sequence differ in length,
\* nothing is raised, the pairs are exactly (token_indices[i], tokens[i]) for
\* i below the shorter length, and the ordered token sequence has the shorter
\* length.
C5_SilentTruncation ==
    Len(tokens) # Len(token_indices) =>
        LET m == IF Len(tokens) < Len(token_indices)
                 THEN Len(tokens) ELSE Len(token_indices) IN
        /\ pc = "ge_sort" =>
              /\ Len(token_pairs) = m
              /\ \A i \in 1..m : token_pairs[i] = <<token_indices[i], tokens[i]>>
        /\ pc \in {"ge_model", "store"} => Len(ordered_tokens) = m
        /\ pc \in {"ge_sort", "ge_model"} => failure = "none"

\* C5: more tokens than indices, and the surplus token was dropped.
C5_Witness ==
    /\ pc = "ge_model"
    /\ Len(tokens) = 3
    /\ Len(token_indices) = 1
    /\ Len(ordered_tokens) = 1

AllOnes(m) == \A r \in DOMAIN m : \A c \in DOMAIN m[r] : m[r][c] = 1

SameShape(m, n) ==
    /\ Len(m) = Len(n)
    /\ \A r \in DOMAIN m : Len(m[r]) = Len(n[r])

\* C6: the attention mask passed to the model is all 1s and as long as the
\* ordered token sequence; with no tokens the ordered sequence is empty, the
\* mask has length zero and nothing before the model call has raised.
C6_AttentionMask ==
    /\ pc = "ge_model" =>
          /\ input_ids = <<ordered_tokens>>
          /\ Len(attention_mask) = 1
          /\ Len(attention_mask[1]) = Len(ordered_tokens)
          /\ AllOnes(attention_mask)
          /\ failure = "none"
          /\ tokens = <<>> => ordered_tokens = <<>> /\ attention_mask = << <<>> >>
    /\ model_feed.called =>
          /\ AllOnes(model_feed.attention_mask)
          /\ SameShape(model_feed.attention_mask, model_feed.input_ids)
          /\ pc = "store" => model_feed.input_ids = <<ordered_tokens>>

\* C6: the model was called for a text with no tokens, with an empty mask.
C6_Witness ==
    /\ pc = "store"
    /\ tokens = <<>>
    /\ model_feed.called
    /\ model_feed.input_ids = << <<>> >>
    /\ model_feed.attention_mask = << <<>> >>

TokensOf(pairs) == [i \in DOMAIN pairs |-> pairs[i][2]]

\* C7 as stated: a pair list whose indices are in ascending order comes out
\* with its tokens in their input order.
C7_AsStated ==
    [][(ReorderStep /\ \A i, j \in DOMAIN token_pairs :
                         i < j => token_pairs[i][1] <= token_pairs[j][1])
       => ordered_tokens' = TokensOf(token_pairs)]_vars

\* C7 amended: a pair list whose indices are in ascending order and whose
\* pairs of equal index are in ascending token order comes out with its tokens
\* in their input order.
C7_SortedInputUnchanged ==
    [][(ReorderStep /\ \A i, j \in DOMAIN token_pairs :
                         i < j => \/ token_pairs[i][1] < token_pairs[j][1]
                                  \/ /\ token_pairs[i][1] = token_pairs[j][1]
                                     /\ token_pairs[i][2] <= token_pairs[j][2])
       => ordered_tokens' = TokensOf(token_pairs)]_vars

\* C7: a sorted three-pair list (one tie on the index) went through unchanged.
C7_Witness ==
    /\ pc = "ge_model"
    /\ tokens = <<5, 42, 5>>
    /\ token_indices = <<0, 0, 1>>
    /\ ordered_tokens = <<5, 42, 5>>

\* C9: pairs of equal index come out in ascending order of token value,
\* whatever their input order, and the output is a permutation of the multiset
\* of input tokens.
C9_TiesByTokenValue ==
    [][ReorderStep =>
        /\ \E f \in Perms(Len(token_pairs)) :
              /\ Len(ordered_tokens') = Len(token_pairs)
              /\ \A k \in DOMAIN token_pairs : ordered_tokens'[f[k]] = token_pairs[k][2]
              /\ \A j, k \in DOMAIN token_pairs :
                    (/\ token_pairs[j][1] = token_pairs[k][1]
                     /\ token_pairs[j][2] < token_pairs[k][2]) => f[j] < f[k]
        /\ \A v \in TokenIds :
              Count(ordered_tokens', v) = Count(TokensOf(token_pairs), v)]_vars

\* C9: two pairs of equal index, larger token first, came out smaller token first.
C9_Witness ==
    /\ pc = "ge_model"
    /\ tokens = <<42, 5>>
    /\ token_indices = <<1, 1>>
    /\ ordered_tokens = <<5, 42>>

-----------------------------------------------------------------------------
(* Properties of main, checked under Spec *)

Range(s) == {s[i] : i \in DOMAIN s}

BothMissing == ~tokenizer_exists /\ ~model_exists

\* C2 as stated: with both files absent the finished run has reported the
\* tokenizer path and the model path as missing and has written nothing.
C2_AsStated ==
    (BothMissing /\ pc = "returned") =>
        /\ TokenizerMissing \in Range(printed)
        /\ ModelMissing \in Range(printed)
        /\ output_file = Untouched

\* C2 amended: with both files absent the run reports the tokenizer path as
\* missing and returns; the model path is never reported as missing and no
\* output file is written.
C2_OnlyTokenizerReported ==
    BothMissing =>
        /\ pc \in {"start", "returned"}
        /\ pc = "returned" => printed = Banner \o <<TokenizerMissing>>
        /\ ModelMissing \notin Range(printed)
        /\ output_file = Untouched

\* C2: a run with both files absent has ended.
C2_Witness == BothMissing /\ pc = "returned"

\* the successful model invocations so far
Embedded == {log[j].sample : j \in {i \in DOMAIN log :
                 log[i].op = "model_run" /\ log[i].returned # NoEmbedding}}

\* C3: the output file is touched only after the embedding of every sample
\* has been computed; a failed tokenizer or model invocation ends the run
\* (nothing further happens) with the output file untouched.
C3_NoPartialOutput ==
    /\ output_file # Untouched =>
          /\ Embedded = 1..Len(test_texts)
          /\ pos = Len(test_texts)
          /\ failure \notin {"tokenizer_run", "model_run"}
    /\ failure \in {"tokenizer_run", "model_run"} =>
          /\ pc = "raised"
          /\ output_file = Untouched
          /\ ~ENABLED Next

\* C3: the model invocation failed on the second sample, after the first
\* sample succeeded.
C3_Witness ==
    /\ failure = "model_run"
    /\ pos = 2
    /\ Embedded = {1}
    /\ output_file = Untouched

\* the loop of lines 73-76 has run to its end
LoopDone == pc \in {"write", "done"} \/ failure \in {"open", "json_dump"}

LastOccurrence(t) ==
    CHOOSE k \in DOMAIN test_texts :
        test_texts[k] = t /\ \A j \in DOMAIN test_texts : j > k => test_texts[j] # t

\* what generate_embedding returned for the k-th sample
ReturnedFor(k) ==
    log[CHOOSE j \in DOMAIN log : log[j].op = "model_run" /\ log[j].sample = k].returned

\* C4: after the loop the mapping has one entry per distinct text (N entries
\* for N pairwise distinct texts), and the value of each key is the embedding
\* computed for the last occurrence of that text.
C4_MappingEntries ==
    LoopDone =>
        /\ DictKeys(embeddings) = Range(test_texts)
        /\ Len(embeddings) = Cardinality(Range(test_texts))
        /\ (\A i, j \in DOMAIN test_texts : i # j => test_texts[i] # test_texts[j])
              => Len(embeddings) = Len(test_texts)
        /\ \A t \in Range(test_texts) :
              DictGet(embeddings, t) = ReturnedFor(LastOccurrence(t))

\* C4: a text was repeated, its two embeddings differed, and the loop ended.
C4_Witness ==
    /\ pc = "write"
    /\ Len(test_texts) = 2
    /\ test_texts[1] = test_texts[2]
    /\ ReturnedFor(1) # ReturnedFor(2)
    /\ Len(embeddings) = 1

\* C8: the two sessions are created once each, before any sample; then the
\* samples are taken in list order, each with one tokenizer invocation
\* followed by one model invocation on those same sessions, nothing else in
\* between; a finished run has done so for every sample.
C8_SequentialRun ==
    /\ \A j \in DOMAIN log :
          /\ j = 1 => log[j].op = "create_tokenizer"
          /\ j = 2 => log[j].op = "create_model"
          /\ (j >= 3 /\ j % 2 = 1) =>
                /\ log[j].op = "tokenizer_run"
                /\ log[j].session = log[1].session
                /\ log[j].sample = (j - 1) \div 2
                /\ log[j].text = test_texts[(j - 1) \div 2]
          /\ (j >= 4 /\ j % 2 = 0) =>
                /\ log[j].op = "model_run"
                /\ log[j].session = log[2].session
                /\ log[j].sample = (j - 2) \div 2
                /\ log[j].returned # NoEmbedding \/ j = Len(log)
    /\ pc \in {"loop", "ge_tokenize"} => Len(log) >= 2
    /\ pc = "done" => Len(log) = 2 + 2 * Len(test_texts)

\* C8: a run over two samples has finished.
C8_Witness ==
    /\ pc = "done"
    /\ Len(test_texts) = 2
    /\ Len(log) = 6

\* C10: while a file is missing the run is before or at the checks or has
\* returned normally; no session exists, no invocation was made, the output
\* file is untouched, and a run that can go no further has returned; the
\* model-file check is reached only when the tokenizer file exists.
C10_ChecksFirst ==
    /\ (~tokenizer_exists \/ ~model_exists) =>
          /\ pc \in {"start", "check_model", "returned"}
          /\ failure = "none"
          /\ tokenizer_session = 0
          /\ model_session = 0
          /\ log = <<>>
          /\ output_file = Untouched
          /\ ~ENABLED Next => pc = "returned"
    /\ pc = "check_model" => tokenizer_exists
    /\ ModelMissing \in Range(printed) => tokenizer_exists

\* C10: the tokenizer file exists, the model file does not, the run returned.
C10_Witness ==
    /\ tokenizer_exists
    /\ ~model_exists
    /\ pc = "returned"
    /\ ModelMissing \in Range(printed)

====
